---- MODULE Spec2Model ----
(***************************************************************************)
(* stapled: the OCSP response cache (src/cache.go).                        *)
(*                                                                         *)
(* The cache holds two maps over shared *Entry pointers, guarded by the    *)
(* RWMutex c.mu; every Entry carries its own RWMutex e.mu guarding the     *)
(* response fields.  Callers (clients) run addMulti, addSingle, remove,    *)
(* lookup and lookupResponse; the monitor goroutine ticks and spawns one   *)
(* refreshAndLog goroutine per entry.  Every blocking call and every field *)
(* write of the source is a step of its own.                               *)
(***************************************************************************)
EXTENDS Integers, Sequences, FiniteSets, TLC

Nil == "nil"
NoThread == "none"

\* ---------------------------------------------------------------- bounds
\* the virtual clock runs from StartTime to MaxTime (in clock ticks)
StartTime == 12
MaxTime == 16
\* the monitor's tick counter is capped (its read locks are never released)
MaxTicks == 2

\* time.Second, in clock ticks: the clock is finer than one second
Second == 2

\* ---------------------------------------------------------------- threads
Clients == {"c1", "c2"}
Monitor == "m"
Goroutines == {"g1", "g2"}
Threads == Clients \cup Goroutines \cup {Monitor}

\* ---------------------------------------------------------------- entries
\* Three Entry objects (pointers).  e1 and e2 carry the same name, e1 and e3
\* the same (issuer, serial).
EntryIds == {"e1", "e2", "e3"}
Names == {"a", "b"}
HashAlgs == {"SHA1", "SHA256", "SHA384", "SHA512"}

name(e) == IF e = "e3" THEN "b" ELSE "a"
issuer(e) == "i1"
serial(e) == IF e = "e2" THEN 2 ELSE 1
responseFilename(e) == IF e = "e3" THEN "" ELSE "a.resp"
Files == {"a.resp"}

\* hashNameAndPKI followed by the two sha256 sums: a digest is determined by
\* the algorithm, the issuer's subject and key, and the serial (no collisions)
hashEntry(h, iss, ser) == <<h, iss, ser>>

allHashes(e) == {hashEntry(h, issuer(e), serial(e)) : h \in HashAlgs}

\* an OCSP request names its algorithm, the issuer hashes and the serial
Requests == [alg : HashAlgs, issuer : {"i1"}, serial : {1, 2}]
hashRequest(request) == <<request.alg, request.issuer, request.serial>>

\* a digest supplied from outside to addSingle that no entry hashes to
ExtKey == <<"ext", "i0", 0>>
Keys == {hashRequest(r) : r \in Requests} \cup {ExtKey}
NoKey == <<>>

\* ---------------------------------------------------------------- upstream
\* OCSP responses the responders can serve: bytes, the two timestamps and
\* whether the signature is good
Responses ==
  { [bytes |-> "A", thisUpdate |-> 0,  nextUpdate |-> 16, sig |-> TRUE],
    [bytes |-> "B", thisUpdate |-> 12, nextUpdate |-> 15, sig |-> TRUE],
    [bytes |-> "X", thisUpdate |-> 12, nextUpdate |-> 20, sig |-> FALSE] }
NoResp == [bytes |-> Nil, thisUpdate |-> 0, nextUpdate |-> 0, sig |-> FALSE]

RespOf(b) == CHOOSE r \in Responses \cup {NoResp} : r.bytes = b

\* what one fetch can return besides an error: resp is NoResp for a reply
\* without a body (304 Not Modified)
FetchResults ==
  { [resp |-> RespOf("A"), eTag |-> "ta", maxAge |-> 0],
    [resp |-> RespOf("B"), eTag |-> "tb", maxAge |-> 1],
    [resp |-> RespOf("X"), eTag |-> "tx", maxAge |-> 0],
    [resp |-> NoResp,      eTag |-> "tn", maxAge |-> 1] }
NoFetch == [resp |-> NoResp, eTag |-> "", maxAge |-> 0]

VARIABLES
  entries,     \* c.entries: name -> *Entry
  lookupMap,   \* c.lookupMap: digest -> *Entry
  cmuW,        \* c.mu: the thread holding the write lock, or Nil
  cmuR,        \* c.mu: read locks held, per thread
  pc,          \* per thread: where it stands in its code
  arg,         \* per client: the arguments of the call in progress
  ret,         \* per client and goroutine: what its last call returned (for a
               \* client the tuple of the values returned)
  hist         \* set by addMulti, kept over the remove that follows it: the
               \* sizes of the maps before that addMulti

cacheVars == <<entries, lookupMap, cmuW, cmuR>>

VARIABLES
  response, thisUpdate, nextUpdate, eTag, maxAge, lastSync,  \* Entry fields
  emuW,        \* e.mu: the thread that took the write lock, or Nil
  emuR,        \* e.mu: the threads holding a read lock
  disk,        \* the file at responseFilename
  tmp,         \* the file at responseFilename + ".tmp"
  now,         \* the clock
  ent,         \* per goroutine: the Entry it works on
  tuNow,       \* per goroutine: now as read by timeToUpdate
  fetched,     \* per goroutine: what fetchResponse returned
  ur,          \* per goroutine: the arguments of updateResponse
  wrote,       \* per goroutine: what its call in progress has written so far
  src,         \* per Entry and field: the goroutine whose updateResponse wrote it
  ticks,       \* ticks the monitor has served
  upstream     \* what the responders can currently answer

fieldVars == <<response, thisUpdate, nextUpdate, eTag, maxAge, lastSync>>
entryVars == <<fieldVars, emuW, emuR, disk, tmp, src>>
goVars == <<ent, tuNow, fetched, ur, wrote, upstream>>

vars == <<cacheVars, pc, arg, ret, hist, entryVars, now, goVars, ticks>>

NoArg == [e |-> Nil, n |-> Nil, k |-> NoKey]
NoHist == [op |-> "none", n |-> Nil, nEntries |-> 0, nLookup |-> 0,
           hadName |-> FALSE, hadDigest |-> FALSE]

\* number of keys present in a map
Size(m) == Cardinality({k \in DOMAIN m : m[k] # Nil})

\* a panic in any goroutine ends the process: no thread takes another step
crashed == \A t \in Threads : pc[t] = "dead"

\* ---------------------------------------------------------------- sync.RWMutex
\* Lock() announces the writer at once: from then on RLock() blocks, and the
\* writer gets the lock when no reader and no writer holds it.

\* threads blocked in c.mu.Lock()
CacheWriters == {c \in Clients : pc[c] \in {"am_lock", "as_lock", "rm_lock"}}

CacheReaders == {t \in DOMAIN cmuR : cmuR[t] > 0}

CacheCanRLock == cmuW = NoThread /\ CacheWriters = {}

CacheCanLock == cmuW = NoThread /\ CacheReaders = {}

\* threads blocked in e.mu.Lock()
EntryWriters(e) ==
  {c \in Clients : pc[c] = "rm_elock" /\ arg[c].e = e}
  \cup {g \in Goroutines : pc[g] = "ur_lock" /\ ent[g] = e}

EntryCanRLock(e) == emuW[e] = NoThread /\ EntryWriters(e) = {}

EntryCanLock(e) == emuW[e] = NoThread /\ emuR[e] = {}

\* ---------------------------------------------------------------- cache
goUnchanged == UNCHANGED <<entryVars, now, goVars, ticks>>

\* a caller enters addMulti: allHashes, then c.mu.Lock()
addMultiCall(c, e) ==
  /\ pc[c] = "idle"
  /\ pc' = [pc EXCEPT ![c] = "am_lock"]
  /\ arg' = [arg EXCEPT ![c] = [e |-> e, n |-> name(e), k |-> NoKey]]
  /\ ret' = [ret EXCEPT ![c] = <<"none">>]
  /\ UNCHANGED <<cacheVars, hist>>
  /\ goUnchanged

\* a caller enters addSingle: c.mu.Lock()
addSingleCall(c, e, key) ==
  /\ pc[c] = "idle"
  /\ pc' = [pc EXCEPT ![c] = "as_lock"]
  /\ arg' = [arg EXCEPT ![c] = [e |-> e, n |-> name(e), k |-> key]]
  /\ ret' = [ret EXCEPT ![c] = <<"none">>]
  /\ UNCHANGED <<cacheVars, hist>>
  /\ goUnchanged

\* a caller enters remove: c.mu.Lock()
removeCall(c, n) ==
  /\ pc[c] = "idle"
  /\ pc' = [pc EXCEPT ![c] = "rm_lock"]
  /\ arg' = [arg EXCEPT ![c] = [e |-> Nil, n |-> n, k |-> NoKey]]
  /\ ret' = [ret EXCEPT ![c] = <<"none">>]
  /\ UNCHANGED <<cacheVars, hist>>
  /\ goUnchanged

\* c.mu.Lock() returns
cacheLock(c) ==
  /\ pc[c] \in {"am_lock", "as_lock", "rm_lock"}
  /\ CacheCanLock
  /\ cmuW' = c
  /\ pc' = [pc EXCEPT ![c] = CASE pc[c] = "am_lock" -> "am_body"
                               [] pc[c] = "as_lock" -> "as_body"
                               [] OTHER -> "rm_find"]
  /\ UNCHANGED <<entries, lookupMap, cmuR, arg, ret, hist>>
  /\ goUnchanged

\* the body of addMulti under the lock, and the deferred Unlock
addMulti(c) ==
  /\ pc[c] = "am_body"
  /\ LET e == arg[c].e IN
       /\ entries' = [entries EXCEPT ![name(e)] = e]
       /\ lookupMap' = [k \in Keys |-> IF k \in allHashes(e) THEN e ELSE lookupMap[k]]
       /\ hist' = [op |-> "addMulti", n |-> name(e),
                   nEntries |-> Size(entries), nLookup |-> Size(lookupMap),
                   hadName |-> entries[name(e)] # Nil,
                   hadDigest |-> \E k \in allHashes(e) : lookupMap[k] # Nil]
  /\ cmuW' = NoThread
  /\ pc' = [pc EXCEPT ![c] = "idle"]
  /\ ret' = [ret EXCEPT ![c] = <<"ok">>]
  /\ arg' = [arg EXCEPT ![c] = NoArg]
  /\ UNCHANGED cmuR
  /\ goUnchanged

\* the body of addSingle under the lock, and the deferred Unlock
addSingle(c) ==
  /\ pc[c] = "as_body"
  /\ LET e == arg[c].e IN
       IF entries[name(e)] # Nil
       THEN UNCHANGED <<entries, lookupMap, hist>>
       ELSE /\ entries' = [entries EXCEPT ![name(e)] = e]
            /\ lookupMap' = [lookupMap EXCEPT ![arg[c].k] = e]
            /\ hist' = NoHist
  /\ cmuW' = NoThread
  /\ pc' = [pc EXCEPT ![c] = "idle"]
  /\ ret' = [ret EXCEPT ![c] = <<"ok">>]
  /\ arg' = [arg EXCEPT ![c] = NoArg]
  /\ UNCHANGED cmuR
  /\ goUnchanged

\* remove looks the name up; an unknown name returns an error (and unlocks)
removeFind(c) ==
  /\ pc[c] = "rm_find"
  /\ IF entries[arg[c].n] = Nil
     THEN /\ cmuW' = NoThread
          /\ pc' = [pc EXCEPT ![c] = "idle"]
          /\ ret' = [ret EXCEPT ![c] = <<"NotFound">>]
          /\ arg' = [arg EXCEPT ![c] = NoArg]
     ELSE /\ pc' = [pc EXCEPT ![c] = "rm_elock"]
          /\ arg' = [arg EXCEPT ![c].e = entries[arg[c].n]]
          /\ UNCHANGED <<cmuW, ret>>
  /\ UNCHANGED <<entries, lookupMap, cmuR, hist>>
  /\ goUnchanged

\* e.mu.Lock() returns inside remove
removeLockEntry(c) ==
  /\ pc[c] = "rm_elock"
  /\ EntryCanLock(arg[c].e)
  /\ emuW' = [emuW EXCEPT ![arg[c].e] = c]
  /\ pc' = [pc EXCEPT ![c] = "rm_del"]
  /\ UNCHANGED <<cacheVars, arg, ret, hist>>
  /\ UNCHANGED <<fieldVars, emuR, disk, tmp, src, now, goVars, ticks>>

\* what remove(n) leaves in hist: right after addMulti of the same name, the
\* record of that addMulti, marked
histAfterRemove(n) ==
  IF hist.op = "addMulti" /\ hist.n = n
  THEN [hist EXCEPT !.op = "addMulti-remove"]
  ELSE NoHist

\* a remove that deletes the name and forgets the digests
removeKeepsDigests(c) ==
  /\ pc[c] = "rm_del"
  /\ entries' = [entries EXCEPT ![arg[c].n] = Nil]
  /\ hist' = histAfterRemove(arg[c].n)
  /\ cmuW' = NoThread
  /\ pc' = [pc EXCEPT ![c] = "idle"]
  /\ ret' = [ret EXCEPT ![c] = <<"ok">>]
  /\ arg' = [arg EXCEPT ![c] = NoArg]
  /\ UNCHANGED <<lookupMap, cmuR>>
  /\ goUnchanged

\* remove deletes the name and the entry's digests; the deferred c.mu.Unlock
\* runs, e.mu stays locked
remove(c) ==
  /\ pc[c] = "rm_del"
  /\ LET e == arg[c].e IN
       /\ entries' = [entries EXCEPT ![arg[c].n] = Nil]
       /\ lookupMap' = [k \in Keys |-> IF k \in allHashes(e) THEN Nil ELSE lookupMap[k]]
       /\ hist' = histAfterRemove(arg[c].n)
  /\ cmuW' = NoThread
  /\ pc' = [pc EXCEPT ![c] = "idle"]
  /\ ret' = [ret EXCEPT ![c] = <<"ok">>]
  /\ arg' = [arg EXCEPT ![c] = NoArg]
  /\ UNCHANGED cmuR
  /\ goUnchanged

\* the responder handler parses the request and calls lookupResponse
Handler == "handler"

handlerCall(c, request) ==
  /\ pc[c] = "idle"
  /\ pc' = [pc EXCEPT ![c] = "lr_rlock"]
  /\ arg' = [arg EXCEPT ![c] = [e |-> Nil, n |-> Handler, k |-> hashRequest(request)]]
  /\ ret' = [ret EXCEPT ![c] = <<"none">>]
  /\ UNCHANGED <<cacheVars, hist>>
  /\ goUnchanged

\* where a call returns to: the handler, or the caller outside
returnTo(c) == IF arg[c].n = Handler THEN "h_reply" ELSE "idle"

\* a caller enters lookup (resp = FALSE) or lookupResponse (resp = TRUE):
\* hashRequest, then c.mu.RLock()
lookupCall(c, request, resp) ==
  /\ pc[c] = "idle"
  /\ pc' = [pc EXCEPT ![c] = IF resp THEN "lr_rlock" ELSE "lk_rlock"]
  /\ arg' = [arg EXCEPT ![c] = [e |-> Nil, n |-> Nil, k |-> hashRequest(request)]]
  /\ ret' = [ret EXCEPT ![c] = <<"none">>]
  /\ UNCHANGED <<cacheVars, hist>>
  /\ goUnchanged

\* c.mu.RLock() returns
cacheRLock(c) ==
  /\ pc[c] \in {"lk_rlock", "lr_rlock"}
  /\ CacheCanRLock
  /\ cmuR' = [cmuR EXCEPT ![c] = @ + 1]
  /\ pc' = [pc EXCEPT ![c] = IF pc[c] = "lk_rlock" THEN "lk_body" ELSE "lr_body"]
  /\ UNCHANGED <<entries, lookupMap, cmuW, arg, ret, hist>>
  /\ goUnchanged

\* lookup reads the digest map, and the deferred RUnlock; lookupResponse
\* returns (nil, false) when the digest is absent
lookup(c) ==
  /\ pc[c] \in {"lk_body", "lr_body"}
  /\ cmuR' = [cmuR EXCEPT ![c] = @ - 1]
  /\ LET e == lookupMap[arg[c].k] IN
       IF pc[c] = "lk_body" \/ e = Nil
       THEN /\ pc' = [pc EXCEPT ![c] = returnTo(c)]
            /\ ret' = [ret EXCEPT ![c] = IF pc[c] = "lk_body" THEN <<e>>
                                         ELSE <<Nil, FALSE>>]
            /\ arg' = [arg EXCEPT ![c] = NoArg]
       ELSE /\ pc' = [pc EXCEPT ![c] = "lr_erlock"]
            /\ arg' = [arg EXCEPT ![c].e = e]
            /\ ret' = ret
  /\ UNCHANGED <<entries, lookupMap, cmuW, hist>>
  /\ goUnchanged

\* e.mu.RLock() returns inside lookupResponse
lookupResponseRLock(c) ==
  /\ pc[c] = "lr_erlock"
  /\ EntryCanRLock(arg[c].e)
  /\ emuR' = [emuR EXCEPT ![arg[c].e] = @ \cup {c}]
  /\ pc' = [pc EXCEPT ![c] = "lr_read"]
  /\ UNCHANGED <<cacheVars, arg, ret, hist>>
  /\ UNCHANGED <<fieldVars, emuW, disk, tmp, src, now, goVars, ticks>>

\* a lookupResponse that returns no bytes for the entry it found
lookupResponseDropsBytes(c) ==
  /\ pc[c] = "lr_read"
  /\ emuR' = [emuR EXCEPT ![arg[c].e] = @ \ {c}]
  /\ pc' = [pc EXCEPT ![c] = returnTo(c)]
  /\ ret' = [ret EXCEPT ![c] = <<Nil, TRUE>>]
  /\ arg' = [arg EXCEPT ![c] = NoArg]
  /\ UNCHANGED <<cacheVars, hist>>
  /\ UNCHANGED <<fieldVars, emuW, disk, tmp, src, now, goVars, ticks>>

\* lookupResponse returns e.response, and the deferred RUnlock
lookupResponse(c) ==
  /\ pc[c] = "lr_read"
  /\ emuR' = [emuR EXCEPT ![arg[c].e] = @ \ {c}]
  /\ pc' = [pc EXCEPT ![c] = returnTo(c)]
  /\ ret' = [ret EXCEPT ![c] = <<response[arg[c].e], TRUE>>]
  /\ arg' = [arg EXCEPT ![c] = NoArg]
  /\ UNCHANGED <<cacheVars, hist>>
  /\ UNCHANGED <<fieldVars, emuW, disk, tmp, src, now, goVars, ticks>>

\* the responder handler answers from what lookupResponse returned: an
\* absent entry is unauthorized; a response whose nextUpdate is before now is
\* stale and is served only when dontDieOnStaleResponse is set, tryLater
\* otherwise; any other response is served.  The reply is the OCSP status,
\* the body and the setting of dontDieOnStaleResponse it was made under
handler(c, dontDieOnStale) ==
  /\ pc[c] = "h_reply"
  /\ LET b == ret[c][1]
         present == ret[c][2] IN
       ret' = [ret EXCEPT ![c] =
                 IF ~present
                 THEN <<"unauthorized", Nil, dontDieOnStale>>
                 ELSE IF RespOf(b).nextUpdate < now /\ ~dontDieOnStale
                 THEN <<"tryLater", Nil, dontDieOnStale>>
                 ELSE <<"successful", b, dontDieOnStale>>]
  /\ pc' = [pc EXCEPT ![c] = "idle"]
  /\ UNCHANGED <<cacheVars, arg, hist>>
  /\ goUnchanged

\* ---------------------------------------------------------------- monitor
CachedEntries == {entries[n] : n \in Names} \ {Nil}

IdleGoroutines == {g \in Goroutines : pc[g] = "idle"}

\* the ticker fires: the monitor calls c.mu.RLock()
monitorTick ==
  /\ pc[Monitor] = "ticker"
  /\ ticks < MaxTicks
  /\ ticks' = ticks + 1
  /\ pc' = [pc EXCEPT ![Monitor] = "mon_rlock"]
  /\ UNCHANGED <<cacheVars, arg, ret, hist, entryVars, now, goVars>>

\* c.mu.RLock() returns in the monitor; the RUnlock is deferred to the return
\* of monitor, which never comes
monitorRLock ==
  /\ pc[Monitor] = "mon_rlock"
  /\ CacheCanRLock
  /\ cmuR' = [cmuR EXCEPT ![Monitor] = @ + 1]
  /\ pc' = [pc EXCEPT ![Monitor] = "mon_range"]
  /\ UNCHANGED <<entries, lookupMap, cmuW, arg, ret, hist>>
  /\ goUnchanged

\* the loop over c.entries: go entry.refreshAndLog() for every entry
monitor ==
  /\ pc[Monitor] = "mon_range"
  /\ \E f \in [CachedEntries -> IdleGoroutines] :
       /\ \A x, y \in CachedEntries : f[x] = f[y] => x = y
       /\ pc' = [t \in Threads |->
                   IF t = Monitor THEN "ticker"
                   ELSE IF \E e \in CachedEntries : f[e] = t THEN "rr_begin"
                   ELSE pc[t]]
       /\ ent' = [g \in Goroutines |->
                   IF \E e \in CachedEntries : f[e] = g
                   THEN CHOOSE e \in CachedEntries : f[e] = g
                   ELSE ent[g]]
       /\ ret' = [t \in DOMAIN ret |->
                   IF \E e \in CachedEntries : f[e] = t THEN "none" ELSE ret[t]]
       /\ wrote' = [g \in Goroutines |->
                   IF \E e \in CachedEntries : f[e] = g THEN {} ELSE wrote[g]]
  /\ UNCHANGED <<cacheVars, arg, hist, entryVars, now, tuNow, fetched, ur,
                 upstream, ticks>>

\* ---------------------------------------------------------------- Entry
FieldNames == {"eTag", "maxAge", "lastSync", "response", "nextUpdate", "thisUpdate"}
\* the arguments of updateResponse; verified records that resp has passed
\* verifyResponse on the way to the call
NoUpdate == [eTag |-> "", maxAge |-> 0, resp |-> NoResp, write |-> FALSE,
             verified |-> FALSE]
InitCall == "new"

\* Go's integer division truncates toward zero
GoDiv(a, b) == IF a >= 0 THEN a \div b ELSE -((-a) \div b)

\* no response, or nextUpdate is in the past: nextUpdate.Before(now)
stale(e, t) == response[e] = Nil \/ nextUpdate[e] < t

\* a max-age test without the guard e.maxAge > 0
maxAgeExpiredIgnoresZero(e, t) == lastSync[e] + maxAge[e] < t

\* the cache max age has expired: lastSync.Add(maxAge).Before(now)
maxAgeExpired(e, t) == maxAge[e] > 0 /\ lastSync[e] + maxAge[e] < t

\* the update window is the last quarter of nextUpdate - thisUpdate
windowSize(e) == GoDiv(nextUpdate[e] - thisUpdate[e], 4)

updateWindowStarts(e) == nextUpdate[e] - windowSize(e)

\* mrand.Intn(n): the values it can return; it panics for n <= 0
Intn(n) == 0 .. (n - 1)

\* a timeToUpdate that also fires when the instant picked is now itself
timeToUpdateInclusive(e, t) ==
  IF stale(e, t) THEN {"true"}
  ELSE IF maxAgeExpired(e, t) THEN {"true"}
  ELSE IF updateWindowStarts(e) > t THEN {"false"}
  ELSE LET n == GoDiv(windowSize(e), Second) IN
       IF n <= 0 THEN {"panic"}
       ELSE { IF updateWindowStarts(e) + Second * r <= t THEN "true" ELSE "false" :
              r \in Intn(n) }

\* what timeToUpdate can answer for entry e when it read the clock at t
timeToUpdate(e, t) ==
  IF stale(e, t) THEN {"true"}
  ELSE IF maxAgeExpired(e, t) THEN {"true"}
  ELSE IF updateWindowStarts(e) > t THEN {"false"}
  ELSE LET n == GoDiv(windowSize(e), Second) IN
       IF n <= 0 THEN {"panic"}
       ELSE { IF updateWindowStarts(e) + Second * r < t THEN "true" ELSE "false" :
              r \in Intn(n) }

\* verifyResponse: the signature is good, thisUpdate is not in the future and
\* nextUpdate is
verifyResponse(resp, t) == resp.sig /\ resp.thisUpdate <= t /\ t < resp.nextUpdate

\* fetchResponse: one of the answers the responders give, or an error
fetchResponse == upstream \cup {NoFetch}

cacheUnchanged == UNCHANGED <<cacheVars, arg, hist, ticks>>

\* refreshResponse begins: timeToUpdate reads the clock, then calls e.mu.RLock()
timeToUpdateNow(g) ==
  /\ pc[g] = "rr_begin"
  /\ tuNow' = [tuNow EXCEPT ![g] = now]
  /\ pc' = [pc EXCEPT ![g] = "tu_rlock"]
  /\ cacheUnchanged
  /\ UNCHANGED <<entryVars, now, ent, fetched, ur, wrote, upstream, ret>>

\* e.mu.RLock() returns, in timeToUpdate and before the comparison
entryRLock(g) ==
  /\ pc[g] \in {"tu_rlock", "rr_rlock"}
  /\ EntryCanRLock(ent[g])
  /\ emuR' = [emuR EXCEPT ![ent[g]] = @ \cup {g}]
  /\ pc' = [pc EXCEPT ![g] = IF pc[g] = "tu_rlock" THEN "tu_eval" ELSE "rr_compare"]
  /\ cacheUnchanged
  /\ UNCHANGED <<fieldVars, emuW, disk, tmp, src, now, goVars, ret>>

\* timeToUpdate decides under the read lock; refreshResponse returns nil when
\* it is not time, and goes on to fetch when it is
timeToUpdateEval(g) ==
  /\ pc[g] = "tu_eval"
  /\ \E r \in timeToUpdate(ent[g], tuNow[g]) :
       /\ pc' = CASE r = "true" -> [pc EXCEPT ![g] = "rr_fetch"]
                  [] r = "false" -> [pc EXCEPT ![g] = "idle"]
                  [] OTHER -> [t \in Threads |-> "dead"]
       /\ ret' = [ret EXCEPT ![g] = CASE r = "true" -> @
                                     [] r = "false" -> "nil"
                                     [] OTHER -> "panic"]
  /\ emuR' = [emuR EXCEPT ![ent[g]] = @ \ {g}]
  /\ tuNow' = [tuNow EXCEPT ![g] = 0]
  /\ cacheUnchanged
  /\ UNCHANGED <<fieldVars, emuW, disk, tmp, src, now, ent, fetched, ur, wrote,
                 upstream>>

\* fetchResponse returns; on an error refreshResponse returns it
refreshFetch(g) ==
  /\ pc[g] = "rr_fetch"
  /\ \E f \in fetchResponse :
       IF f = NoFetch
       THEN /\ pc' = [pc EXCEPT ![g] = "idle"]
            /\ ret' = [ret EXCEPT ![g] = "FetchError"]
            /\ fetched' = fetched
       ELSE /\ pc' = [pc EXCEPT ![g] = "rr_rlock"]
            /\ fetched' = [fetched EXCEPT ![g] = f]
            /\ ret' = ret
  /\ cacheUnchanged
  /\ UNCHANGED <<entryVars, now, ent, tuNow, ur, wrote, upstream>>

\* resp == nil || bytes.Compare(respBytes, e.response) == 0, and the RUnlock:
\* an unchanged response goes to updateResponse(eTag, maxAge, nil, nil, true)
refreshCompare(g) ==
  /\ pc[g] = "rr_compare"
  /\ emuR' = [emuR EXCEPT ![ent[g]] = @ \ {g}]
  /\ IF fetched[g].resp = NoResp \/ fetched[g].resp.bytes = response[ent[g]]
     THEN /\ pc' = [pc EXCEPT ![g] = "ur_lock"]
          /\ ur' = [ur EXCEPT ![g] = [eTag |-> fetched[g].eTag,
                                      maxAge |-> fetched[g].maxAge,
                                      resp |-> NoResp, write |-> TRUE,
                                      verified |-> FALSE]]
          /\ fetched' = [fetched EXCEPT ![g] = NoFetch]
     ELSE /\ pc' = [pc EXCEPT ![g] = "rr_verify"]
          /\ UNCHANGED <<ur, fetched>>
  /\ cacheUnchanged
  /\ UNCHANGED <<fieldVars, emuW, disk, tmp, src, now, ent, tuNow, wrote,
                 upstream, ret>>

\* a refreshResponse that assigns e.response before it looks at the result
\* of verifyResponse
refreshVerifyAssignsFirst(g) ==
  /\ pc[g] = "rr_verify"
  /\ response' = [response EXCEPT ![ent[g]] = fetched[g].resp.bytes]
  /\ IF verifyResponse(fetched[g].resp, now)
     THEN /\ pc' = [pc EXCEPT ![g] = "ur_lock"]
          /\ ur' = [ur EXCEPT ![g] = [eTag |-> fetched[g].eTag,
                                      maxAge |-> fetched[g].maxAge,
                                      resp |-> fetched[g].resp, write |-> TRUE,
                                      verified |-> TRUE]]
          /\ ret' = ret
     ELSE /\ pc' = [pc EXCEPT ![g] = "idle"]
          /\ ret' = [ret EXCEPT ![g] = "VerifyError"]
          /\ ur' = ur
  /\ fetched' = [fetched EXCEPT ![g] = NoFetch]
  /\ wrote' = [wrote EXCEPT ![g] = @ \cup {"response"}]
  /\ cacheUnchanged
  /\ UNCHANGED <<thisUpdate, nextUpdate, eTag, maxAge, lastSync, emuW, emuR, disk, tmp,
                 src, now, ent, tuNow, upstream>>

\* verifyResponse: a failure is returned, a success goes to
\* updateResponse(eTag, maxAge, resp, respBytes, true)
refreshVerify(g) ==
  /\ pc[g] = "rr_verify"
  /\ IF verifyResponse(fetched[g].resp, now)
     THEN /\ pc' = [pc EXCEPT ![g] = "ur_lock"]
          /\ ur' = [ur EXCEPT ![g] = [eTag |-> fetched[g].eTag,
                                      maxAge |-> fetched[g].maxAge,
                                      resp |-> fetched[g].resp, write |-> TRUE,
                                      verified |-> TRUE]]
          /\ ret' = ret
     ELSE /\ pc' = [pc EXCEPT ![g] = "idle"]
          /\ ret' = [ret EXCEPT ![g] = "VerifyError"]
          /\ ur' = ur
  /\ fetched' = [fetched EXCEPT ![g] = NoFetch]
  /\ cacheUnchanged
  /\ UNCHANGED <<entryVars, now, ent, tuNow, wrote, upstream>>

\* an updateResponse that starts to assign without e.mu.Lock()
updateResponseNoLock(g) ==
  /\ pc[g] = "ur_lock"
  /\ pc' = [pc EXCEPT ![g] = "ur_eTag"]
  /\ cacheUnchanged
  /\ UNCHANGED <<entryVars, now, goVars, ret>>

\* e.mu.Lock() returns in updateResponse
updateResponseLock(g) ==
  /\ pc[g] = "ur_lock"
  /\ EntryCanLock(ent[g])
  /\ emuW' = [emuW EXCEPT ![ent[g]] = g]
  /\ pc' = [pc EXCEPT ![g] = "ur_eTag"]
  /\ cacheUnchanged
  /\ UNCHANGED <<fieldVars, emuR, disk, tmp, src, now, ent, tuNow, fetched, ur, wrote,
                 upstream, ret>>

\* the value updateResponse assigns to field f
updateValue(g, f) ==
  CASE f = "eTag" -> ur[g].eTag
    [] f = "maxAge" -> Second * ur[g].maxAge
    [] f = "lastSync" -> now
    [] f = "response" -> ur[g].resp.bytes
    [] f = "nextUpdate" -> ur[g].resp.nextUpdate
    [] OTHER -> ur[g].resp.thisUpdate

\* an updateResponse that writes to disk whenever write is set, with or
\* without a new response
updateNextAlwaysWrites(g, f) ==
  CASE f = "eTag" -> "ur_maxAge"
    [] f = "maxAge" -> "ur_lastSync"
    [] f = "lastSync" -> IF ur[g].resp # NoResp THEN "ur_response"
                         ELSE IF responseFilename(ent[g]) # "" /\ ur[g].write
                         THEN "wd_write" ELSE "ur_unlock"
    [] f = "response" -> "ur_nextUpdate"
    [] f = "nextUpdate" -> "ur_thisUpdate"
    [] OTHER -> IF responseFilename(ent[g]) # "" /\ ur[g].write
                THEN "wd_write" ELSE "ur_unlock"

\* where updateResponse goes after assigning field f
updateNext(g, f) ==
  CASE f = "eTag" -> "ur_maxAge"
    [] f = "maxAge" -> "ur_lastSync"
    [] f = "lastSync" -> IF ur[g].resp # NoResp THEN "ur_response" ELSE "ur_unlock"
    [] f = "response" -> "ur_nextUpdate"
    [] f = "nextUpdate" -> "ur_thisUpdate"
    [] OTHER -> IF responseFilename(ent[g]) # "" /\ ur[g].write
                THEN "wd_write" ELSE "ur_unlock"

\* one assignment of updateResponse, in the order of the source
updateResponseWrite(g, f) ==
  /\ pc[g] = "ur_" \o f
  /\ LET e == ent[g]
         v == updateValue(g, f) IN
       /\ eTag' = IF f = "eTag" THEN [eTag EXCEPT ![e] = v] ELSE eTag
       /\ maxAge' = IF f = "maxAge" THEN [maxAge EXCEPT ![e] = v] ELSE maxAge
       /\ lastSync' = IF f = "lastSync" THEN [lastSync EXCEPT ![e] = v] ELSE lastSync
       /\ response' = IF f = "response" THEN [response EXCEPT ![e] = v] ELSE response
       /\ nextUpdate' = IF f = "nextUpdate" THEN [nextUpdate EXCEPT ![e] = v]
                        ELSE nextUpdate
       /\ thisUpdate' = IF f = "thisUpdate" THEN [thisUpdate EXCEPT ![e] = v]
                        ELSE thisUpdate
       /\ src' = [src EXCEPT ![e][f] = g]
  /\ wrote' = [wrote EXCEPT ![g] = @ \cup {f}]
  /\ pc' = [pc EXCEPT ![g] = updateNext(g, f)]
  /\ cacheUnchanged
  /\ UNCHANGED <<emuW, emuR, disk, tmp, now, ent, tuNow, fetched, ur,
                 upstream, ret>>

\* a writeToDisk that writes e.response to responseFilename itself
writeToDiskWriteInPlace(g, ok) ==
  /\ pc[g] = "wd_write"
  /\ LET file == responseFilename(ent[g]) IN
       IF ok
       THEN /\ disk' = [disk EXCEPT ![file] = response[ent[g]]]
            /\ wrote' = [wrote EXCEPT ![g] = @ \cup {"disk"}]
       ELSE /\ \E t \in {disk[file], "torn"} : disk' = [disk EXCEPT ![file] = t]
            /\ wrote' = wrote
  /\ pc' = [pc EXCEPT ![g] = "ur_unlock"]
  /\ cacheUnchanged
  /\ UNCHANGED <<fieldVars, emuW, emuR, tmp, src, now, ent, tuNow, fetched, ur,
                 upstream, ret>>

\* writeToDisk: ioutil.WriteFile(tmpName, e.response); a failure (or the
\* process stopping in the middle of the write) may leave a partly written
\* file and makes updateResponse return
writeToDiskWrite(g, ok) ==
  /\ pc[g] = "wd_write"
  /\ LET file == responseFilename(ent[g]) IN
       IF ok
       THEN /\ tmp' = [tmp EXCEPT ![file] = response[ent[g]]]
            /\ pc' = [pc EXCEPT ![g] = "wd_rename"]
       ELSE /\ \E t \in {tmp[file], "torn"} : tmp' = [tmp EXCEPT ![file] = t]
            /\ pc' = [pc EXCEPT ![g] = "ur_unlock"]
  /\ wrote' = [wrote EXCEPT ![g] = @ \cup {"tmp"}]
  /\ cacheUnchanged
  /\ UNCHANGED <<fieldVars, emuW, emuR, disk, src, now, ent, tuNow, fetched, ur,
                 upstream, ret>>

\* writeToDisk: os.Rename(tmpName, e.responseFilename)
writeToDiskRename(g, ok) ==
  /\ pc[g] = "wd_rename"
  /\ LET file == responseFilename(ent[g]) IN
       IF ok
       THEN /\ disk' = [disk EXCEPT ![file] = tmp[file]]
            /\ tmp' = [tmp EXCEPT ![file] = Nil]
            /\ wrote' = [wrote EXCEPT ![g] = @ \cup {"disk"}]
       ELSE UNCHANGED <<disk, tmp, wrote>>
  /\ pc' = [pc EXCEPT ![g] = "ur_unlock"]
  /\ cacheUnchanged
  /\ UNCHANGED <<fieldVars, emuW, emuR, src, now, ent, tuNow, fetched, ur,
                 upstream, ret>>

\* the deferred e.mu.Unlock() of updateResponse; refreshResponse returns nil
updateResponseUnlock(g) ==
  /\ pc[g] = "ur_unlock"
  /\ emuW' = [emuW EXCEPT ![ent[g]] = NoThread]
  /\ ret' = [ret EXCEPT ![g] = "nil"]
  /\ ur' = [ur EXCEPT ![g] = NoUpdate]
  /\ wrote' = [wrote EXCEPT ![g] = {}]
  /\ pc' = [pc EXCEPT ![g] = "idle"]
  /\ cacheUnchanged
  /\ UNCHANGED <<fieldVars, emuR, disk, tmp, src, now, ent, tuNow, fetched,
                 upstream>>

\* go entry.refreshAndLog() for one cached entry, as a tick of the monitor
\* starts it
refreshAndLog(g, e) ==
  /\ pc[g] = "idle"
  /\ e \in CachedEntries
  /\ pc' = [pc EXCEPT ![g] = "rr_begin"]
  /\ ent' = [ent EXCEPT ![g] = e]
  /\ ret' = [ret EXCEPT ![g] = "none"]
  /\ wrote' = [wrote EXCEPT ![g] = {}]
  /\ cacheUnchanged
  /\ UNCHANGED <<entryVars, now, tuNow, fetched, ur, upstream>>

\* Entry.Init: the request is built, then readFromDisk is called; while Init
\* runs ret holds "init"
EntryInit(g, e) ==
  /\ pc[g] = "idle"
  /\ pc' = [pc EXCEPT ![g] = "in_read"]
  /\ ent' = [ent EXCEPT ![g] = e]
  /\ ret' = [ret EXCEPT ![g] = "init"]
  /\ wrote' = [wrote EXCEPT ![g] = {}]
  /\ cacheUnchanged
  /\ UNCHANGED <<entryVars, now, tuNow, fetched, ur, upstream>>

\* what readFromDisk gets from the file: an error of ReadFile (no such file,
\* or ok = FALSE) or of ocsp.ParseResponse, which checks the signature against
\* e.issuer, or else the parsed response
readResult(e, ok) ==
  LET file == responseFilename(e) IN
    IF ~ok \/ file = "" \/ disk[file] \in {Nil, "torn"} THEN NoResp
    ELSE IF ~RespOf(disk[file]).sig THEN NoResp
    ELSE RespOf(disk[file])

\* a readFromDisk that installs what it parsed without calling verifyResponse
readFromDiskNoVerify(g, ok) ==
  /\ pc[g] = "in_read"
  /\ LET resp == readResult(ent[g], ok) IN
       IF resp # NoResp
       THEN /\ ur' = [ur EXCEPT ![g] = [eTag |-> "", maxAge |-> 0, resp |-> resp,
                                        write |-> FALSE,
                                        verified |-> verifyResponse(resp, now)]]
            /\ pc' = [pc EXCEPT ![g] = "ur_lock"]
       ELSE /\ ur' = ur
            /\ pc' = [pc EXCEPT ![g] = "rr_begin"]
  /\ cacheUnchanged
  /\ UNCHANGED <<entryVars, now, ent, tuNow, fetched, wrote, upstream, ret>>

\* readFromDisk: a response read, parsed and verified goes to
\* updateResponse("", 0, resp, respBytes, false), after which Init returns nil;
\* on any error Init goes on to refreshResponse
readFromDisk(g, ok) ==
  /\ pc[g] = "in_read"
  /\ LET resp == readResult(ent[g], ok) IN
       IF resp # NoResp /\ verifyResponse(resp, now)
       THEN /\ ur' = [ur EXCEPT ![g] = [eTag |-> "", maxAge |-> 0, resp |-> resp,
                                        write |-> FALSE, verified |-> TRUE]]
            /\ pc' = [pc EXCEPT ![g] = "ur_lock"]
       ELSE /\ ur' = ur
            /\ pc' = [pc EXCEPT ![g] = "rr_begin"]
  /\ cacheUnchanged
  /\ UNCHANGED <<entryVars, now, ent, tuNow, fetched, wrote, upstream, ret>>

\* the clock advances
clockTick ==
  /\ ~crashed
  /\ now < MaxTime
  /\ now' = now + 1
  /\ UNCHANGED <<cacheVars, pc, arg, ret, hist, entryVars, goVars, ticks>>

\* ---------------------------------------------------------------- specifications
\* the state after newCache and NewEntry: empty maps, entries without response
InitCommon ==
  /\ cmuW = NoThread
  /\ cmuR = [t \in Clients \cup {Monitor} |-> 0]
  /\ pc = [t \in Threads |-> IF t = Monitor THEN "ticker" ELSE "idle"]
  /\ arg = [c \in Clients |-> NoArg]
  /\ ret = [t \in Clients \cup Goroutines |->
              IF t \in Clients THEN <<"none">> ELSE "none"]
  /\ hist = NoHist
  /\ response = [e \in EntryIds |-> Nil]
  /\ thisUpdate = [e \in EntryIds |-> 0]
  /\ nextUpdate = [e \in EntryIds |-> 0]
  /\ eTag = [e \in EntryIds |-> ""]
  /\ maxAge = [e \in EntryIds |-> 0]
  /\ lastSync = [e \in EntryIds |-> 0]
  /\ emuW = [e \in EntryIds |-> NoThread]
  /\ emuR = [e \in EntryIds |-> {}]
  /\ tmp = [f \in Files |-> Nil]
  /\ src = [e \in EntryIds |-> [f \in FieldNames |-> InitCall]]
  /\ now = StartTime
  /\ ent = [g \in Goroutines |-> Nil]
  /\ tuNow = [g \in Goroutines |-> 0]
  /\ fetched = [g \in Goroutines |-> NoFetch]
  /\ ur = [g \in Goroutines |-> NoUpdate]
  /\ wrote = [g \in Goroutines |-> {}]
  /\ ticks = 0

\* no snapshot on disk
InitNoSnapshot == disk = [f \in Files |-> Nil]

\* the empty cache of newCache
InitEmpty ==
  /\ entries = [n \in Names |-> Nil]
  /\ lookupMap = [k \in Keys |-> Nil]

\* the cache after addMulti of entry e1
InitLoaded ==
  /\ entries = [n \in Names |-> IF n = name("e1") THEN "e1" ELSE Nil]
  /\ lookupMap = [k \in Keys |-> IF k \in allHashes("e1") THEN "e1" ELSE Nil]

\* the steps of a caller's operations once it has called
clientRun(c) ==
  \/ cacheLock(c)
  \/ addMulti(c)
  \/ addSingle(c)
  \/ removeFind(c)
  \/ removeLockEntry(c)
  \/ remove(c)
  \/ cacheRLock(c)
  \/ lookup(c)
  \/ lookupResponse(c)
  \/ lookupResponseRLock(c)

\* any call on the cache
clientCall(c) ==
  \/ \E e \in EntryIds : addMultiCall(c, e)
  \/ \E e \in EntryIds : \E key \in {hashEntry("SHA256", issuer(e), serial(e)), ExtKey} :
       addSingleCall(c, e, key)
  \/ \E n \in Names : removeCall(c, n)
  \/ \E r \in Requests : \E resp \in BOOLEAN : lookupCall(c, r, resp)

\* the steps of refreshResponse; the file system does what it is asked
goroutineStep(g) ==
  \/ timeToUpdateNow(g)
  \/ entryRLock(g)
  \/ timeToUpdateEval(g)
  \/ refreshFetch(g)
  \/ refreshCompare(g)
  \/ refreshVerify(g)
  \/ updateResponseLock(g)
  \/ \E f \in FieldNames : updateResponseWrite(g, f)
  \/ writeToDiskWrite(g, TRUE)
  \/ writeToDiskRename(g, TRUE)
  \/ updateResponseUnlock(g)

monitorStep == monitorTick \/ monitorRLock \/ monitor

\* Spec: the cache as one caller drives it, up to the monitor's first tick
\* (after that tick no Lock() on c.mu returns any more, see SpecMonitor)
Callers == {"c1"}

Init == InitCommon /\ InitNoSnapshot /\ InitEmpty /\ upstream = {}

Next ==
  \E c \in Callers : clientCall(c) \/ clientRun(c)

Spec == Init /\ [][Next]_vars

\* SpecMonitor: the loaded cache with its monitor, the refreshes the monitor
\* starts and two callers that add, remove and look up entry e1; the clock
\* stands still and the responders serve response A
MonitorRequest == [alg |-> "SHA1", issuer |-> "i1", serial |-> 1]

monitorClientCall(c) ==
  \/ addMultiCall(c, "e1")
  \/ removeCall(c, "a")
  \/ \E resp \in BOOLEAN : lookupCall(c, MonitorRequest, resp)

monitorClientRun(c) ==
  \/ cacheLock(c)
  \/ addMulti(c)
  \/ removeFind(c)
  \/ removeLockEntry(c)
  \/ remove(c)
  \/ cacheRLock(c)
  \/ lookup(c)
  \/ lookupResponse(c)
  \/ lookupResponseRLock(c)

InitMonitor ==
  /\ InitCommon
  /\ InitNoSnapshot
  /\ InitLoaded
  /\ upstream = {f \in FetchResults : f.resp.bytes = "A"}

NextMonitor ==
  \/ \E c \in Clients : monitorClientCall(c) \/ monitorClientRun(c)
  \/ monitorStep
  \/ \E g \in Goroutines : goroutineStep(g)

SpecMonitor == InitMonitor /\ [][NextMonitor]_vars

\* SpecEntry: entry e1 in the loaded cache, refreshed by the goroutines that
\* the ticks start while the clock advances and a reader looks it up
InitEntry ==
  /\ InitCommon
  /\ InitNoSnapshot
  /\ InitLoaded
  /\ upstream = FetchResults

entryClientStep(c) ==
  \/ lookupCall(c, MonitorRequest, TRUE)
  \/ cacheRLock(c)
  \/ lookup(c)
  \/ lookupResponseRLock(c)
  \/ lookupResponse(c)

NextEntry ==
  \/ \E g \in Goroutines : refreshAndLog(g, "e1") \/ goroutineStep(g)
  \/ clockTick
  \/ \E c \in Callers : entryClientStep(c)

SpecEntry == InitEntry /\ [][NextEntry]_vars

\* SpecMulti: as Spec, the caller inserting with addMulti only
multiCall(c) ==
  \/ \E e \in EntryIds : addMultiCall(c, e)
  \/ \E n \in Names : removeCall(c, n)
  \/ \E r \in Requests : \E resp \in BOOLEAN : lookupCall(c, r, resp)

multiRun(c) ==
  \/ cacheLock(c)
  \/ addMulti(c)
  \/ removeFind(c)
  \/ removeLockEntry(c)
  \/ remove(c)
  \/ cacheRLock(c)
  \/ lookup(c)
  \/ lookupResponse(c)
  \/ lookupResponseRLock(c)

NextMulti == \E c \in Callers : multiCall(c) \/ multiRun(c)

SpecMulti == Init /\ [][NextMulti]_vars

\* SpecInit: entry e1 from Entry.Init on.  The file at responseFilename holds
\* nothing, a response an earlier run wrote, or something else; goroutine g1
\* runs Init, then a caller adds the entry to the cache and g1 runs the
\* refreshes that the ticks start, while the clock advances
Snapshots == {Nil, "A", "B", "X", "torn"}

InitInit ==
  /\ InitCommon
  /\ InitEmpty
  /\ upstream = FetchResults
  /\ \E b \in Snapshots : disk = [f \in Files |-> b]

\* Entry.Init is called once on the new Entry
initCall ==
  /\ ent["g1"] = Nil
  /\ EntryInit("g1", "e1")

\* the Entry is added to the cache after Init has returned nil
initAdd ==
  /\ ent["g1"] = "e1" /\ pc["g1"] = "idle" /\ ret["g1"] = "nil"
  /\ entries[name("e1")] = Nil
  /\ addMultiCall("c1", "e1")

NextInit ==
  \/ initCall
  \/ \E ok \in BOOLEAN : readFromDisk("g1", ok)
  \/ goroutineStep("g1")
  \/ initAdd
  \/ cacheLock("c1")
  \/ addMulti("c1")
  \/ refreshAndLog("g1", "e1")
  \/ clockTick

SpecInit == InitInit /\ [][NextInit]_vars

\* SpecDisk: as SpecEntry without the reader, on a file system whose writes
\* and renames can fail; the responders serve the two good responses
goroutineDiskStep(g) ==
  \/ timeToUpdateNow(g)
  \/ entryRLock(g)
  \/ timeToUpdateEval(g)
  \/ refreshFetch(g)
  \/ refreshCompare(g)
  \/ refreshVerify(g)
  \/ updateResponseLock(g)
  \/ \E f \in FieldNames : updateResponseWrite(g, f)
  \/ \E ok \in BOOLEAN : writeToDiskWrite(g, ok)
  \/ \E ok \in BOOLEAN : writeToDiskRename(g, ok)
  \/ updateResponseUnlock(g)

InitDisk ==
  /\ InitCommon
  /\ InitNoSnapshot
  /\ InitLoaded
  /\ upstream = {f \in FetchResults : f.resp.sig}

NextDisk ==
  \/ \E g \in Goroutines : refreshAndLog(g, "e1") \/ goroutineDiskStep(g)
  \/ clockTick

SpecDisk == InitDisk /\ [][NextDisk]_vars

\* SpecResponder: the responder handler answering requests for entry e1 and
\* for a certificate the cache does not know, while goroutine g1 runs the
\* refreshes of e1, which may fail, and the clock advances
AbsentRequest == [alg |-> "SHA1", issuer |-> "i1", serial |-> 2]

responderStep(c) ==
  \/ \E r \in {MonitorRequest, AbsentRequest} : handlerCall(c, r)
  \/ cacheRLock(c)
  \/ lookup(c)
  \/ lookupResponseRLock(c)
  \/ lookupResponse(c)
  \/ \E dontDieOnStale \in BOOLEAN : handler(c, dontDieOnStale)

NextResponder ==
  \/ refreshAndLog("g1", "e1")
  \/ goroutineStep("g1")
  \/ clockTick
  \/ \E c \in Callers : responderStep(c)

SpecResponder == InitEntry /\ [][NextResponder]_vars

\* SpecMonitorFair: SpecMonitor under the Go scheduler, which runs every
\* goroutine that can run: a call in progress, the monitor and every refresh
\* take their next step when it stays possible
SpecMonitorFair ==
  /\ SpecMonitor
  /\ \A c \in Clients : WF_vars(monitorClientRun(c))
  /\ WF_vars(monitorStep)
  /\ \A g \in Goroutines : WF_vars(goroutineStep(g))

\* ---------------------------------------------------------------- claims

\* C1: after any sequence of addMulti and remove, for every name n in entries
\* and every hash algorithm h, the digest of (n.issuer, n.serial) under h is a
\* key of lookupMap and maps to the Entry stored under n.
C1_DigestsOfNamedEntries ==
  \A n \in Names :
    entries[n] # Nil =>
      \A h \in HashAlgs :
        lookupMap[hashEntry(h, issuer(entries[n]), serial(entries[n]))] = entries[n]

\* C2: every Entry that lookupMap points to is the Entry stored in entries
\* under its own name.
C2_LookupMapPointsIntoEntries ==
  \A k \in Keys :
    lookupMap[k] # Nil => entries[name(lookupMap[k])] = lookupMap[k]

\* C3 (as claimed): for any cache state and any entry e, addMulti(e) followed
\* by remove(e.name) returns both maps to the sizes they had before the
\* addMulti.
C3_InsertRemoveRestoresSizes ==
  hist.op = "addMulti-remove" =>
    /\ Size(entries) = hist.nEntries
    /\ Size(lookupMap) = hist.nLookup

\* C3 (amended): when e.name is not in entries and none of e's digests is a
\* key of lookupMap, addMulti(e) followed by a remove(e.name) that returns
\* leaves both maps with the sizes they had before the addMulti.
C3_FreshInsertRemoveRestoresSizes ==
  (hist.op = "addMulti-remove" /\ ~hist.hadName /\ ~hist.hadDigest) =>
    /\ Size(entries) = hist.nEntries
    /\ Size(lookupMap) = hist.nLookup

\* C3 witness: a fresh entry was inserted into a cache that already held
\* another entry, and removed again.
C3_Witness ==
  /\ hist.op = "addMulti-remove"
  /\ ~hist.hadName
  /\ ~hist.hadDigest
  /\ hist.nEntries = 1
  /\ hist.nLookup >= Cardinality(HashAlgs)
  /\ Size(entries) = 1

\* the fields of entry e guarded by e.mu
Fields(e) ==
  <<response[e], thisUpdate[e], nextUpdate[e], eTag[e], maxAge[e], lastSync[e]>>

MetaFields == {"eTag", "maxAge", "lastSync"}
RespFields == {"response", "nextUpdate", "thisUpdate"}

\* C4: when refreshResponse fails because the fetch failed or the fetched
\* response failed verification, it returns the error and has written none of
\* the entry's fields and nothing to disk: the step that returns the error
\* leaves response, thisUpdate, nextUpdate, eTag, maxAge and lastSync as they
\* are, and no earlier step of the call wrote them.
C4_FailedRefreshWritesNothing ==
  [][\A g \in Goroutines :
       (pc[g] \in {"rr_fetch", "rr_verify"} /\ pc'[g] = "idle") =>
         /\ ret'[g] \in {"FetchError", "VerifyError"}
         /\ wrote[g] = {} /\ wrote'[g] = {}
         /\ Fields(ent[g])' = Fields(ent[g])
         /\ disk' = disk]_vars

\* C4 witness: a refresh has returned VerifyError on an entry that holds a
\* response.
C4_Witness ==
  \E g \in Goroutines :
    /\ pc[g] = "idle"
    /\ ret[g] = "VerifyError"
    /\ response[ent[g]] = "A"

\* C5: when the fetch returned no body or bytes identical to e.response,
\* refreshResponse goes to the metadata-only updateResponse, which returns
\* success having written eTag, maxAge and lastSync and nothing else:
\* response, thisUpdate, nextUpdate and the files stay as they are.
C5_UnchangedResponseUpdatesMetadataOnly ==
  [][\A g \in Goroutines :
       /\ (/\ pc[g] = "rr_compare"
           /\ pc'[g] \notin {"rr_compare", "dead"}
           /\ \/ fetched[g].resp = NoResp
              \/ fetched[g].resp.bytes = response[ent[g]])
          => (pc'[g] = "ur_lock" /\ ur'[g].resp = NoResp)
       /\ (pc[g] = "ur_unlock" /\ ur[g].resp = NoResp /\ pc'[g] = "idle")
          => /\ ret'[g] = "nil"
             /\ wrote[g] = MetaFields
             /\ response' = response
             /\ thisUpdate' = thisUpdate
             /\ nextUpdate' = nextUpdate
             /\ disk' = disk /\ tmp' = tmp]_vars

\* C5 witness: a refresh that fetched bytes identical to the response the
\* entry holds is about to return from its metadata-only update.
C5_Witness ==
  \E g \in Goroutines :
    /\ pc[g] = "ur_unlock"
    /\ ur[g].resp = NoResp
    /\ ur[g].eTag = "ta"
    /\ response[ent[g]] = "A"
    /\ wrote[g] = MetaFields

\* the steps of refreshResponse from the fetch to the end of the update
InFlight ==
  {"rr_fetch", "rr_rlock", "rr_compare", "rr_verify", "ur_lock", "ur_eTag",
   "ur_maxAge", "ur_lastSync", "ur_response", "ur_nextUpdate", "ur_thisUpdate",
   "wd_write", "wd_rename", "ur_unlock"}

\* C6: at most one refresh is in flight per Entry: of two overlapping
\* refreshResponse calls on the same Entry at most one fetches and updates.
C6_AtMostOneRefreshInFlight ==
  \A e \in EntryIds :
    Cardinality({g \in Goroutines : ent[g] = e /\ pc[g] \in InFlight}) <= 1

\* C7: the monitor holds no lock on the cache between two ticks, nor while a
\* refresh it scheduled is fetching, verifying or writing to disk.
C7_MonitorHoldsNoLockAcrossRefresh ==
  /\ pc[Monitor] = "ticker" => cmuR[Monitor] = 0
  /\ \A g \in Goroutines :
       pc[g] \in {"rr_fetch", "rr_verify", "wd_write", "wd_rename"} => cmuR[Monitor] = 0

\* C8: under fair scheduling every call to lookup, lookupResponse, addMulti
\* and remove eventually returns, whatever the monitor's ticks do.
C8_EveryCallReturns ==
  \A c \in Clients : (pc[c] # "idle") ~> (pc[c] = "idle")

\* C9 (as claimed): the fields a reader reads under the shared lock of an
\* Entry that holds a response all come from the same single update.
C9_ReaderSeesOneUpdate ==
  \A e \in EntryIds :
    (emuR[e] # {} /\ response[e] # Nil) =>
      \A f1, f2 \in FieldNames : src[e][f1] = src[e][f2]

\* C9 (amended): under the Entry's shared lock a reader never sees a partly
\* written update: response, thisUpdate and nextUpdate come from one update,
\* and eTag, maxAge and lastSync come from one update, which is a later one
\* when an unchanged response made updateResponse write the metadata only.
C9_ReaderSeesWholeUpdates ==
  \A e \in EntryIds :
    emuR[e] # {} =>
      /\ \A f1, f2 \in RespFields : src[e][f1] = src[e][f2]
      /\ \A f1, f2 \in MetaFields : src[e][f1] = src[e][f2]
      /\ \A g \in Goroutines : ent[g] = e => pc[g] \notin
           {"ur_eTag", "ur_maxAge", "ur_lastSync", "ur_response", "ur_nextUpdate",
            "ur_thisUpdate", "wd_write", "wd_rename", "ur_unlock"}

\* C9 witness: lookupResponse holds the shared lock of an entry that one
\* goroutine has refreshed and another is waiting to update.
C9_Witness ==
  \E c \in Clients : \E g \in Goroutines :
    /\ pc[c] = "lr_read"
    /\ c \in emuR[arg[c].e]
    /\ src[arg[c].e]["response"] \in Goroutines \ {g}
    /\ ent[g] = arg[c].e
    /\ pc[g] = "ur_lock"

\* C10: whenever the entry's response is empty or nextUpdate <= now, the
\* boundary now = nextUpdate included, timeToUpdate returns true and
\* refreshResponse goes on to fetch.
C10_StaleRefreshesImmediately ==
  [][\A g \in Goroutines :
       (/\ pc[g] = "tu_eval"
        /\ g \notin emuR'[ent[g]]
        /\ \/ response[ent[g]] = Nil
           \/ nextUpdate[ent[g]] <= tuNow[g])
       => pc'[g] = "rr_fetch"]_vars

\* C11 (as claimed): whenever the entry has maxAge > 0 and
\* lastSync + maxAge <= now, the boundary now = lastSync + maxAge included, a
\* timeToUpdate that returns returns true and refreshResponse goes on to
\* fetch, also before the update window starts.
C11_MaxAgeExpiredRefreshesImmediately ==
  [][\A g \in Goroutines :
       (/\ pc[g] = "tu_eval"
        /\ g \notin emuR'[ent[g]]
        /\ pc'[g] # "dead"
        /\ response[ent[g]] # Nil
        /\ maxAge[ent[g]] > 0
        /\ lastSync[ent[g]] + maxAge[ent[g]] <= tuNow[g])
       => pc'[g] = "rr_fetch"]_vars

\* timeToUpdate of goroutine g decides at now = updateWindowStart for an
\* entry that holds a response and is not Stale
AtWindowStart(g) ==
  /\ response[ent[g]] # Nil
  /\ tuNow[g] < nextUpdate[ent[g]]
  /\ maxAge[ent[g]] = 0 \/ tuNow[g] < lastSync[ent[g]] + maxAge[ent[g]]
  /\ tuNow[g] = updateWindowStarts(ent[g])

\* C12 (as claimed): at now = updateWindowStart, for an entry that holds a
\* response and is not Stale, timeToUpdate can answer true and can answer
\* false.
C12_WindowStartBothOutcomes ==
  \A g \in Goroutines :
    (pc[g] = "tu_eval" /\ AtWindowStart(g)) =>
      {"true", "false"} \subseteq timeToUpdate(ent[g], tuNow[g])

\* C12 (amended): at now = updateWindowStart, for an entry that holds a
\* response and is not Stale, a refresh tick never fires: timeToUpdate does
\* not return true and refreshResponse does not go on to fetch.
C12_WindowStartNeverFires ==
  [][\A g \in Goroutines :
       (pc[g] = "tu_eval" /\ g \notin emuR'[ent[g]] /\ AtWindowStart(g))
       => pc'[g] # "rr_fetch"]_vars

\* C12 witness: timeToUpdate decides at now = updateWindowStart for an entry
\* whose update window is a second or longer.
C12_Witness ==
  \E g \in Goroutines :
    /\ pc[g] = "tu_eval"
    /\ AtWindowStart(g)
    /\ windowSize(ent[g]) >= Second

\* timeToUpdate of goroutine g decides for an entry in the Fresh state
Fresh(g) ==
  /\ response[ent[g]] # Nil
  /\ tuNow[g] < updateWindowStarts(ent[g])
  /\ tuNow[g] < nextUpdate[ent[g]]
  /\ maxAge[ent[g]] = 0 \/ tuNow[g] < lastSync[ent[g]] + maxAge[ent[g]]

\* C13: in the Fresh state timeToUpdate returns false and refreshResponse
\* returns nil without fetching, having written no field of the entry and
\* nothing on disk.
C13_FreshDoesNothing ==
  [][\A g \in Goroutines :
       (pc[g] = "tu_eval" /\ g \notin emuR'[ent[g]] /\ Fresh(g))
       => /\ pc'[g] = "idle"
          /\ ret'[g] = "nil"
          /\ wrote[g] = {} /\ wrote'[g] = {}
          /\ Fields(ent[g])' = Fields(ent[g])
          /\ disk' = disk /\ tmp' = tmp]_vars

\* C13 witness: timeToUpdate decides for a Fresh entry: it holds a response
\* with a max-age that has not expired, before the update window.
C13_Witness ==
  \E g \in Goroutines :
    /\ pc[g] = "tu_eval"
    /\ Fresh(g)
    /\ maxAge[ent[g]] > 0
    /\ tuNow[g] > lastSync[ent[g]]

\* C16 (as claimed): no update replaces the response an entry holds by one
\* with an earlier thisUpdate: the thisUpdate of an entry never decreases.
C16_NeverReplacedByOlder ==
  [][\A e \in EntryIds : thisUpdate'[e] >= thisUpdate[e]]_vars

\* C20 (as claimed): for every entry that holds a response with
\* thisUpdate <= nextUpdate and every now, timeToUpdate answers true or false:
\* it never fails.
C20_TimeToUpdateNeverFails ==
  \A g \in Goroutines :
    (/\ pc[g] = "tu_eval"
     /\ response[ent[g]] # Nil
     /\ thisUpdate[ent[g]] <= nextUpdate[ent[g]])
    => timeToUpdate(ent[g], tuNow[g]) \subseteq {"true", "false"}

\* C14: an entry's response is only ever set by an updateResponse whose
\* response passed ocsp.ParseResponse and verifyResponse on the way there
\* (from disk, from the fetch in Init or from a background refresh), and it is
\* set to exactly the bytes of that response; the metadata-only update does
\* not touch it.
C14_ResponseAlwaysVerified ==
  [][\A e \in EntryIds :
       response'[e] # response[e] =>
         \E g \in Goroutines :
           /\ ent[g] = e
           /\ pc[g] = "ur_response"
           /\ ur[g].verified
           /\ ur[g].resp.sig
           /\ ur[g].resp # NoResp
           /\ response'[e] = ur[g].resp.bytes]_vars

\* C14 witness: Init has returned nil with a response loaded from disk (no
\* eTag), and the clock has moved on past its nextUpdate.
C14_Witness ==
  /\ pc["g1"] = "idle"
  /\ ret["g1"] = "nil"
  /\ response["e1"] = "B"
  /\ eTag["e1"] = ""
  /\ now > nextUpdate["e1"]

\* C18 (as claimed): a caller that has returned from remove holds no Entry's
\* lock.
C18_RemoveReleasesLocks ==
  \A c \in Clients :
    pc[c] = "idle" => \A e \in EntryIds : emuW[e] # c

\* C19 (as claimed): when Entry.Init returns nil the entry holds a response.
C19_InitSuccessHoldsResponse ==
  [][\A g \in Goroutines :
       (ret[g] = "init" /\ ret'[g] = "nil") => response'[ent[g]] # Nil]_vars

\* C17: the file at responseFilename is never torn: at every point (where
\* the process may stop) it is absent or holds the complete bytes of a
\* response, every change of it is the rename of writeToDisk and leaves the
\* bytes the entry holds at that moment, and when an updateResponse that
\* replaced the response and renamed the file returns, the file holds exactly
\* e.response.
C17_SnapshotNeverTorn ==
  [][/\ \A f \in Files : disk'[f] \in {Nil} \cup {r.bytes : r \in Responses}
     /\ \A f \in Files :
          disk'[f] # disk[f] =>
            \E g \in Goroutines :
              /\ pc[g] = "wd_rename"
              /\ responseFilename(ent[g]) = f
              /\ disk'[f] = response[ent[g]]
     /\ \A g \in Goroutines :
          (pc[g] = "ur_unlock" /\ pc'[g] = "idle" /\ "disk" \in wrote[g]) =>
            disk[responseFilename(ent[g])] = response[ent[g]]]_vars

\* C17 witness: a write that failed has left a partly written temporary file
\* while the entry holds response B: the snapshot still holds the complete
\* bytes of A, which the entry held before.
C17_Witness ==
  /\ disk["a.resp"] = "A"
  /\ tmp["a.resp"] = "torn"
  /\ response["e1"] = "B"

====
